---- MODULE Spec2Model ----
(***************************************************************************)
(* Model of src/projeto.py: the Code Normalizer (format_code), the         *)
(* Extractor (parse_llm_response) and the Orchestrator (process_input).    *)
(*                                                                         *)
(* Strings are sequences of characters.  For test code the alphabet is     *)
(* the characters format_code distinguishes; for model output it is the   *)
(* lexical units parse_llm_response distinguishes.                         *)
(***************************************************************************)
EXTENDS Integers, Sequences, FiniteSets, TLC

VARIABLES
    \* ---- process_input (one generation request) ----
    pc,            \* position in process_input
    max_retries,   \* the max_retries argument
    attempt,       \* loop variable of: for attempt in range(max_retries + 1)
    invocations,   \* number of llm.invoke calls made so far
    output,        \* output.content of the current attempt
    extracted,     \* what parse_llm_response returned in the current attempt
    result,        \* the local result (after the format_code loop)
    exc,           \* str(e) of the exception caught in the current attempt
    returned,      \* the value process_input returned
    trace,         \* how each finished attempt ended, in order
    \* ---- format_code applied to one string ----
    fpc,           \* position of the format_code run
    code_string,   \* the argument of format_code
    once,          \* format_code(code_string)
    twice,         \* format_code(format_code(code_string))
    \* ---- parse_llm_response applied to one text ----
    ppc,           \* position in parse_llm_response
    text,          \* the argument of parse_llm_response
    embedded,      \* the JSON object written inside the fenced block of text, if any
    tried,         \* the strategies attempted so far, in order
    parsed,        \* the value parse_llm_response returned
    \* ---- the session: generation requests one after the other ----
    history,       \* st.session_state.test_cases
    request,       \* what happened in the latest request
    answer         \* what process_input returned to the latest request

vars == <<pc, max_retries, attempt, invocations, output, extracted, result,
          exc, returned, trace, fpc, code_string, once, twice,
          ppc, text, embedded, tried, parsed, history, request, answer>>

orchVars == <<pc, max_retries, attempt, invocations, output, extracted,
              result, exc, returned, trace>>

fmtVars == <<fpc, code_string, once, twice>>

parseVars == <<ppc, text, embedded, tried, parsed>>

sessVars == <<history, request, answer>>

(***************************************************************************)
(* Bounds of the model.                                                    *)
(***************************************************************************)
\* longest test-code string given to format_code
MaxCodeLen == 4

\* largest retry budget passed to process_input
MaxRetriesBound == 2

\* the generate button is not pressed once the history holds this many cases
MaxHistory == 4

(***************************************************************************)
(* Characters of test code.                                                *)
(***************************************************************************)
DQ == "dq"     \* the double-quote character
SQ == "sq"     \* the single-quote character
BS == "bs"     \* the backslash character
LN == "n"      \* the letter n
NL == "nl"     \* a real line break
SP == "sp"     \* a space
CH == "a"      \* any other character

CodeChars == {DQ, SQ, BS, LN, NL, SP, CH}

\* str.strip() with no argument removes whitespace, line breaks included
Whitespace == {SP, NL}

Min(a, b) == IF a < b THEN a ELSE b

\* all strings over chars of length 0..n
StringsUpTo(chars, n) == UNION {[1..k -> chars] : k \in 0..n}

\* Python: pat in s
Contains(s, pat) ==
    \E i \in 1..(Len(s) - Len(pat) + 1) : SubSeq(s, i, i + Len(pat) - 1) = pat

\* the two-character sequence backslash, n ("\\n" in the source)
EscapedNewline == <<BS, LN>>

\* the one-character string holding a real line break ("\n" in the source)
RealNewline == <<NL>>

\* a buggy replace that rewrites only the first escaped newline
RECURSIVE ReplaceFirstOnly(_)
ReplaceFirstOnly(s) ==
    IF Len(s) < 2 THEN s
    ELSE IF SubSeq(s, 1, 2) = EscapedNewline
         THEN RealNewline \o SubSeq(s, 3, Len(s))
         ELSE <<Head(s)>> \o ReplaceFirstOnly(Tail(s))

\* code_string.replace("\\n", "\n"): left to right, non-overlapping
RECURSIVE ReplaceEscapedNewlines(_)
ReplaceEscapedNewlines(s) ==
    IF Len(s) < 2 THEN s
    ELSE IF SubSeq(s, 1, 2) = EscapedNewline
         THEN RealNewline \o ReplaceEscapedNewlines(SubSeq(s, 3, Len(s)))
         ELSE <<Head(s)>> \o ReplaceEscapedNewlines(Tail(s))

\* str.lstrip() / str.rstrip() / str.strip()
RECURSIVE LStrip(_)
LStrip(s) == IF Len(s) > 0 /\ Head(s) \in Whitespace THEN LStrip(Tail(s)) ELSE s

RECURSIVE RStrip(_)
RStrip(s) ==
    IF Len(s) > 0 /\ s[Len(s)] \in Whitespace
    THEN RStrip(SubSeq(s, 1, Len(s) - 1))
    ELSE s

Strip(s) == RStrip(LStrip(s))

\* s.startswith(q) and s.endswith(q) for a one-character q
Surrounded(s, q) == Len(s) > 0 /\ s[1] = q /\ s[Len(s)] = q

\* if s.startswith(q) and s.endswith(q): s = s[1:-1]
StripQuotePair(s, q) ==
    IF Surrounded(s, q) THEN SubSeq(s, 2, Len(s) - 1) ELSE s

\* a format_code without the early return
FormatCodeNoGuard(s) ==
    StripQuotePair(StripQuotePair(Strip(ReplaceEscapedNewlines(s)), DQ), SQ)

\* a format_code that looks for single quotes before double quotes
FormatCodeSingleFirst(s) ==
    IF Contains(s, RealNewline) /\ ~Contains(s, EscapedNewline)
    THEN s
    ELSE StripQuotePair(StripQuotePair(Strip(ReplaceEscapedNewlines(s)), SQ), DQ)

\* format_code(code_string)
format_code(s) ==
    IF Contains(s, RealNewline) /\ ~Contains(s, EscapedNewline)
    THEN s
    ELSE StripQuotePair(StripQuotePair(Strip(ReplaceEscapedNewlines(s)), DQ), SQ)

(***************************************************************************)
(* Characters of model output, as far as parse_llm_response tells them     *)
(* apart.  A JSON object is written  LB body RB ; a body stands for the    *)
(* text between the braces and BodyDict gives what json.loads makes of it. *)
(***************************************************************************)
FENCE == "fence"     \* the triple-backtick marker
TAG == "json"      \* the tag "json"
WS == "ws"         \* white space
LB == "{"
RB == "}"
PROSE == "g"       \* any other character of prose

\* the dict of one test case as the model writes it
CaseDict(title, code) ==
    [title |-> title, description |-> "d", preconditions |-> <<"p">>,
     steps |-> <<"s1", "s2">>, expected_results |-> <<"r1", "r2">>,
     test_type |-> "Funcional", test_code |-> code]

\* a test case lacking its test_code field
CaseDictNoCode(title) ==
    [title |-> title, description |-> "d", preconditions |-> <<"p">>,
     steps |-> <<"s1", "s2">>, expected_results |-> <<"r1", "r2">>,
     test_type |-> "Funcional"]

TwoCases ==
    <<CaseDict("t1", <<DQ, CH, BS, LN, CH, DQ>>), CaseDict("t2", <<CH, NL, CH>>)>>

OneCase == <<CaseDict("t3", <<SQ, DQ, CH, DQ, SQ>>)>>

BlankCase == <<CaseDict("t4", <<SP, CH, SP>>)>>

\* a message the model wrote
ModelMessage == <<"m", "s", "g">>

\* bodies that are well-formed JSON member lists
WellFormedBodies ==
    {"valid_two", "valid_one", "valid_blank", "valid_empty", "valid_default",
     "rejected", "rejected_cases", "invalid_nomsg", "invalid_nomsg_cases",
     "no_message", "no_is_valid", "bad_case"}

\* a body json.loads rejects (a trailing comma, an unquoted key, ...)
MalformedBodies == {"syntax_error"}

Bodies == WellFormedBodies \cup MalformedBodies

\* what json.loads makes of  LB body RB
BodyDict(b) ==
    CASE b = "valid_two" ->
           [is_valid |-> TRUE, message |-> <<>>, test_cases |-> TwoCases]
      [] b = "valid_one" ->
           [is_valid |-> TRUE, message |-> ModelMessage, test_cases |-> OneCase]
      [] b = "valid_blank" ->
           [is_valid |-> TRUE, message |-> <<>>, test_cases |-> BlankCase]
      [] b = "valid_empty" ->
           [is_valid |-> TRUE, message |-> <<>>, test_cases |-> <<>>]
      [] b = "valid_default" ->
           [is_valid |-> TRUE, message |-> ModelMessage]
      [] b = "rejected" ->
           [is_valid |-> FALSE, message |-> ModelMessage, test_cases |-> <<>>]
      [] b = "rejected_cases" ->
           [is_valid |-> FALSE, message |-> ModelMessage, test_cases |-> OneCase]
      [] b = "invalid_nomsg" ->
           [is_valid |-> FALSE, message |-> <<>>, test_cases |-> <<>>]
      [] b = "invalid_nomsg_cases" ->
           [is_valid |-> FALSE, message |-> <<>>, test_cases |-> TwoCases]
      [] b = "no_message" ->
           [is_valid |-> TRUE, test_cases |-> OneCase]
      [] b = "no_is_valid" ->
           [message |-> ModelMessage, test_cases |-> <<>>]
      [] b = "bad_case" ->
           [is_valid |-> TRUE, message |-> <<>>,
            test_cases |-> <<CaseDictNoCode("t5")>>]
      [] OTHER -> [x \in {} |-> x]

(***************************************************************************)
(* Schema: TestCase and ValidationWithTestCases.                           *)
(***************************************************************************)
\* the required fields of TestCase
TestCaseFields ==
    {"title", "description", "preconditions", "steps", "expected_results",
     "test_type", "test_code"}

\* ValidationWithTestCases(is_valid=..., message=..., test_cases=...)
ValidationWithTestCases(v, m, cases) ==
    [is_valid |-> v, message |-> m, test_cases |-> cases]

\* the test_cases of a decoded dict; the field defaults to []
CasesOf(d) == IF "test_cases" \in DOMAIN d THEN d.test_cases ELSE <<>>

\* does the decoded dict conform to the schema (no ValidationError)
SchemaValid(d) ==
    /\ "is_valid" \in DOMAIN d
    /\ "message" \in DOMAIN d
    /\ \A i \in 1..Len(CasesOf(d)) : DOMAIN CasesOf(d)[i] = TestCaseFields

\* ValidationWithTestCases.model_validate(d) for a conforming dict
model_validate(d) == ValidationWithTestCases(d.is_valid, d.message, CasesOf(d))

(***************************************************************************)
(* Extractor: parse_llm_response.                                          *)
(***************************************************************************)
\* number of characters of the fixed text before the embedded prefix
ParsePrefixLen == 55

\* content[:200]
TruncLen == 200

\* number of characters of the generic exhausted message
GenericLen == 119

\* a literal text of n characters
Lit(c, n) == [i \in 1..n |-> c]

Ellipsis == <<".", ".", ".">>

NotWs(c) == c # WS

\* the least index >= from at which s holds c, or 0
FirstIndex(s, c, from) ==
    IF \E i \in from..Len(s) : s[i] = c
    THEN CHOOSE i \in from..Len(s) : s[i] = c /\ \A j \in from..(i - 1) : s[j] # c
    ELSE 0

\* the greatest index at which s holds c, or 0
LastIndex(s, c) ==
    IF \E i \in 1..Len(s) : s[i] = c
    THEN CHOOSE i \in 1..Len(s) : s[i] = c /\ \A j \in (i + 1)..Len(s) : s[j] # c
    ELSE 0

\* the first index >= from that holds no white space (Len(s) + 1 if none)
RECURSIVE SkipWs(_, _)
SkipWs(s, from) ==
    IF from <= Len(s) /\ s[from] = WS THEN SkipWs(s, from + 1) ELSE from

\* str.strip() on model output
RECURSIVE StripWs(_)
StripWs(s) ==
    IF Len(s) > 0 /\ Head(s) = WS THEN StripWs(Tail(s))
    ELSE IF Len(s) > 0 /\ s[Len(s)] = WS THEN StripWs(SubSeq(s, 1, Len(s) - 1))
    ELSE s

Failed == [ok |-> FALSE, obj |-> [x \in {} |-> x]]

\* an object one of whose string values holds the triple-backtick marker:
\* the text up to the marker, the marker, the text after it
FenceStringObject == <<LB, "fstr_head", FENCE, "fstr_tail", RB>>

\* what json.loads makes of FenceStringObject
FenceStringDict ==
    [is_valid |-> FALSE, message |-> <<"m", FENCE, "m">>, test_cases |-> <<>>]

\* json.loads(t): white space between the units of a document is skipped
JsonLoads(t) ==
    LET u == SelectSeq(t, NotWs)
    IN  IF Len(u) = 3 /\ u[1] = LB /\ u[2] \in WellFormedBodies /\ u[3] = RB
        THEN [ok |-> TRUE, obj |-> BodyDict(u[2])]
        ELSE IF u = <<LB, RB>>
        THEN [ok |-> TRUE, obj |-> [x \in {} |-> x]]
        ELSE IF u = FenceStringObject
        THEN [ok |-> TRUE, obj |-> FenceStringDict]
        ELSE Failed

\* json.loads followed by model_validate; ok is FALSE where either raises
DecodeAndValidate(t) ==
    LET j == JsonLoads(t)
    IN  IF j.ok /\ SchemaValid(j.obj) THEN j ELSE Failed

\* first strategy, parser.parse(content) of the library's PydanticOutputParser:
\* the whole text is one document conforming to the schema
StrictDecode(content) == DecodeAndValidate(content)

\* re.search of the fenced-block pattern: [found, inner] with inner group(1)
FencedMatch(content) ==
    LET open == FirstIndex(content, FENCE, 1)
        afterTag == IF open > 0 /\ open < Len(content) /\ content[open + 1] = TAG
                    THEN open + 2 ELSE open + 1
        start == SkipWs(content, afterTag)
        close == IF open > 0 THEN FirstIndex(content, FENCE, start) ELSE 0
    IN  IF close > 0
        THEN [found |-> TRUE, inner |-> SubSeq(content, start, close - 1)]
        ELSE [found |-> FALSE, inner |-> <<>>]

\* second strategy: the fenced block, stripped, decoded and validated
FencedDecode(content) ==
    LET m == FencedMatch(content)
    IN  IF m.found THEN DecodeAndValidate(StripWs(m.inner)) ELSE Failed

\* re.search of the brace-span pattern: first LB through last RB
BraceMatch(content) ==
    LET first == FirstIndex(content, LB, 1)
        last == LastIndex(content, RB)
    IN  IF first > 0 /\ last > first
        THEN [found |-> TRUE, span |-> SubSeq(content, first, last)]
        ELSE [found |-> FALSE, span |-> <<>>]

\* third strategy: the brace span decoded and validated
BraceDecode(content) ==
    LET m == BraceMatch(content)
    IN  IF m.found THEN DecodeAndValidate(m.span) ELSE Failed

\* a fallback that embeds the last characters of the text (content[-200:])
FallbackMessageTail(content) ==
    Lit("P", ParsePrefixLen)
        \o SubSeq(content, Len(content) - Min(TruncLen, Len(content)) + 1, Len(content))
        \o Ellipsis

\* a fallback that embeds the whole text
FallbackMessageUncut(content) ==
    Lit("P", ParsePrefixLen) \o content \o Ellipsis

\* the message of the terminal fallback
FallbackMessage(content) ==
    Lit("P", ParsePrefixLen)
        \o SubSeq(content, 1, Min(TruncLen, Len(content)))
        \o Ellipsis

\* do all three strategies fail on content
AllStrategiesFail(content) ==
    /\ ~StrictDecode(content).ok
    /\ ~FencedDecode(content).ok
    /\ ~BraceDecode(content).ok

\* an extractor whose last resort carries no message
ParseBlankFallback(content) ==
    IF StrictDecode(content).ok
    THEN model_validate(StrictDecode(content).obj)
    ELSE IF FencedDecode(content).ok
    THEN model_validate(FencedDecode(content).obj)
    ELSE IF BraceDecode(content).ok
    THEN model_validate(BraceDecode(content).obj)
    ELSE ValidationWithTestCases(FALSE, <<>>, <<>>)

\* parse_llm_response(content)
parse_llm_response(content) ==
    IF StrictDecode(content).ok
    THEN model_validate(StrictDecode(content).obj)
    ELSE IF FencedDecode(content).ok
    THEN model_validate(FencedDecode(content).obj)
    ELSE IF BraceDecode(content).ok
    THEN model_validate(BraceDecode(content).obj)
    ELSE ValidationWithTestCases(FALSE, FallbackMessage(content), <<>>)

(***************************************************************************)
(* What the model may answer, and how an attempt may fail.                 *)
(***************************************************************************)
\* the whole answer is one JSON object
Strict(b) == <<LB, b, RB>>

\* the object inside a fenced block tagged json, prose around it
Fenced(b) == <<PROSE, WS, FENCE, TAG, WS, LB, b, RB, WS, FENCE, WS, PROSE>>

\* the object in the middle of prose
Embedded(b) == <<PROSE, WS, LB, b, RB, WS, PROSE>>

\* n characters of prose
Garbage(n) == Lit(PROSE, n)

GarbageLens == {0, 1, TruncLen - 1, TruncLen, TruncLen + 1, 2 * TruncLen}

ModelOutputs ==
    {Strict(b) : b \in Bodies} \cup {Fenced(b) : b \in Bodies}
        \cup {Embedded(b) : b \in Bodies} \cup {Garbage(n) : n \in GarbageLens}

\* str(e) of the exceptions an attempt may raise
ExcDescriptions == {<<>>, <<"t", "i", "m", "e", "o", "u", "t">>}

(***************************************************************************)
(* Orchestrator: process_input.                                            *)
(***************************************************************************)
Pending == [kind |-> "pending"]

\* falling off the end of the function
ReturnsNone == [kind |-> "none"]

Return(env) == [kind |-> "envelope", env |-> env]

NoEnvelope == ValidationWithTestCases(FALSE, <<>>, <<>>)

\* the message of the envelope returned when the budget is spent without exception
GenericMessage == Lit("G", GenericLen)

\* f"Erro ao processar entrada apos {max_retries+1} tentativas: {str(e)}"
ErrorMessage(retries, e) ==
    Lit("E", 31) \o <<ToString(retries + 1)>> \o Lit("T", 13) \o e

\* result.is_valid and result.test_cases
HasCases(env) == env.is_valid /\ Len(env.test_cases) > 0

\* not result.is_valid and result.message
IsRejection(env) == ~env.is_valid /\ Len(env.message) > 0

\* a loop that formats the last test case only
FormatLastCaseOnly(env) ==
    IF HasCases(env)
    THEN [env EXCEPT !.test_cases[Len(env.test_cases)].test_code = format_code(@)]
    ELSE env

\* lines 226-228: format_code on every test case of a valid, non-empty result
FormatCases(env) ==
    IF HasCases(env)
    THEN [env EXCEPT !.test_cases =
              [i \in 1..Len(env.test_cases) |->
                  [env.test_cases[i] EXCEPT !.test_code = format_code(@)]]]
    ELSE env

\* a call of process_input with some budget; no format_code run of its own
Init ==
    /\ pc = "for"
    /\ max_retries \in (-1)..MaxRetriesBound
    /\ attempt = 0
    /\ invocations = 0
    /\ output = <<>>
    /\ extracted = NoEnvelope
    /\ result = NoEnvelope
    /\ exc = <<>>
    /\ returned = Pending
    /\ trace = <<>>
    /\ fpc = "off"
    /\ code_string = <<>>
    /\ once = <<>>
    /\ twice = <<>>
    /\ ppc = "off"
    /\ text = <<>>
    /\ embedded = <<>>
    /\ tried = <<>>
    /\ parsed = NoEnvelope
    /\ history = <<>>
    /\ request = "off"
    /\ answer = Pending

\* a loop that skips an index on every retry
NextAttemptSkips(att) == att + 2

\* the value range() gives the loop variable after att
NextAttempt(att) == att + 1

\* for attempt in range(max_retries + 1): enter the body or fall off the loop
ForLoop ==
    /\ pc = "for"
    /\ IF attempt < max_retries + 1
       THEN pc' = "try" /\ returned' = returned
       ELSE pc' = "done" /\ returned' = ReturnsNone
    /\ UNCHANGED <<max_retries, attempt, invocations, output, extracted,
                   result, exc, trace>>
    /\ UNCHANGED <<fmtVars, parseVars, sessVars>>

\* setup_llm / prompt building raises before the model is invoked
SetupRaises ==
    /\ pc = "try"
    /\ \E e \in ExcDescriptions : exc' = e
    /\ pc' = "except"
    /\ UNCHANGED <<max_retries, attempt, invocations, output, extracted,
                   result, returned, trace>>
    /\ UNCHANGED <<fmtVars, parseVars, sessVars>>

\* llm.invoke(messages) raises
InvokeRaises ==
    /\ pc = "try"
    /\ invocations' = invocations + 1
    /\ \E e \in ExcDescriptions : exc' = e
    /\ pc' = "except"
    /\ UNCHANGED <<max_retries, attempt, output, extracted, result, returned,
                   trace>>
    /\ UNCHANGED <<fmtVars, parseVars, sessVars>>

\* llm.invoke(messages) returns
InvokeReturns ==
    /\ pc = "try"
    /\ invocations' = invocations + 1
    /\ \E content \in ModelOutputs : output' = content
    /\ pc' = "parse"
    /\ UNCHANGED <<max_retries, attempt, extracted, result, exc, returned,
                   trace>>
    /\ UNCHANGED <<fmtVars, parseVars, sessVars>>

\* result = parse_llm_response(output.content)
Parse ==
    /\ pc = "parse"
    /\ extracted' = parse_llm_response(output)
    /\ result' = extracted'
    /\ pc' = "format"
    /\ UNCHANGED <<max_retries, attempt, invocations, output, exc, returned,
                   trace>>
    /\ UNCHANGED <<fmtVars, parseVars, sessVars>>

\* an exception leaves the extraction pipeline (a failing diagnostic write)
ParseRaises ==
    /\ pc = "parse"
    /\ \E e \in ExcDescriptions : exc' = e
    /\ pc' = "except"
    /\ UNCHANGED <<max_retries, attempt, invocations, output, extracted,
                   result, returned, trace>>
    /\ UNCHANGED <<fmtVars, parseVars, sessVars>>

\* lines 226-228
Format ==
    /\ pc = "format"
    /\ result' = FormatCases(result)
    /\ pc' = "decide"
    /\ UNCHANGED <<max_retries, attempt, invocations, output, extracted, exc,
                   returned, trace>>
    /\ UNCHANGED <<fmtVars, parseVars, sessVars>>

\* how the attempt that produced env ended
OutcomeKind(env) ==
    IF HasCases(env) THEN "success"
    ELSE IF IsRejection(env) THEN "rejected"
    ELSE IF env.is_valid THEN "valid_empty"
    ELSE "invalid_nomsg"

\* a decision that returns whatever the Extractor produced
DecideReturnsAny(env, att, retries) == Return(env)

\* a decision that gives up one attempt early
DecideOneShort(env, att, retries) ==
    IF HasCases(env) THEN Return(env)
    ELSE IF IsRejection(env) THEN Return(env)
    ELSE IF att + 1 < retries THEN Pending
    ELSE Return(ValidationWithTestCases(FALSE, GenericMessage, <<>>))

\* a decision that retries a rejection like an empty result
DecideRetriesRejection(env, att, retries) ==
    IF HasCases(env) THEN Return(env)
    ELSE IF att < retries THEN Pending
    ELSE Return(ValidationWithTestCases(FALSE, GenericMessage, <<>>))

\* a decision that returns every invalid result, with or without a message
DecideReturnsInvalid(env, att, retries) ==
    IF HasCases(env) THEN Return(env)
    ELSE IF ~env.is_valid THEN Return(env)
    ELSE IF att < retries THEN Pending
    ELSE Return(ValidationWithTestCases(FALSE, GenericMessage, <<>>))

\* lines 231-245: what the attempt returns; Pending stands for continue
Decision(env, att, retries) ==
    IF HasCases(env) THEN Return(env)
    ELSE IF IsRejection(env) THEN Return(env)
    ELSE IF att < retries THEN Pending
    ELSE Return(ValidationWithTestCases(FALSE, GenericMessage, <<>>))

\* lines 231-245
Decide ==
    /\ pc = "decide"
    /\ trace' = Append(trace, [kind |-> OutcomeKind(result), invoked |-> TRUE])
    /\ returned' = Decision(result, attempt, max_retries)
    /\ IF returned' = Pending
       THEN pc' = "for" /\ attempt' = NextAttempt(attempt)
       ELSE pc' = "done" /\ attempt' = attempt
    /\ UNCHANGED <<max_retries, invocations, output, extracted, result, exc>>
    /\ UNCHANGED <<fmtVars, parseVars, sessVars>>

\* an except clause that never retries
HandlerGivesUp(e, att, retries) ==
    Return(ValidationWithTestCases(FALSE, ErrorMessage(retries, e), <<>>))

\* an except clause that lets the last exception escape
HandlerReraises(e, att, retries) ==
    IF att < retries THEN Pending ELSE [kind |-> "raised"]

\* an except clause that reports a spent budget with the generic message
HandlerGeneric(e, att, retries) ==
    IF att < retries THEN Pending
    ELSE Return(ValidationWithTestCases(FALSE, GenericMessage, <<>>))

\* lines 247-256: what the except clause returns; Pending stands for continue
Handler(e, att, retries) ==
    IF att < retries THEN Pending
    ELSE Return(ValidationWithTestCases(FALSE, ErrorMessage(retries, e), <<>>))

WasInvoked(t) == t.invoked

\* lines 247-256
Except ==
    /\ pc = "except"
    /\ trace' = Append(trace, [kind |-> "exception",
                               invoked |-> invocations > Len(SelectSeq(trace, WasInvoked))])
    /\ returned' = Handler(exc, attempt, max_retries)
    /\ IF returned' = Pending
       THEN pc' = "for" /\ attempt' = NextAttempt(attempt)
       ELSE pc' = "done" /\ attempt' = attempt
    /\ UNCHANGED <<max_retries, invocations, output, extracted, result, exc>>
    /\ UNCHANGED <<fmtVars, parseVars, sessVars>>

Next ==
    \/ ForLoop
    \/ SetupRaises
    \/ InvokeRaises
    \/ InvokeReturns
    \/ Parse
    \/ ParseRaises
    \/ Format
    \/ Decide
    \/ Except

\* one call of process_input, for every budget and every course of attempts
Spec == Init /\ [][Next]_vars

(***************************************************************************)
(* format_code on its own: applied to a string, then to its own result     *)
(* (the export handler formats the stored, already formatted test_code).   *)
(***************************************************************************)
\* longer test codes as the model writes them: a quoted two-line snippet,
\* double quotes around single quotes, single quotes around double quotes,
\* a doubly quoted word between a space and a line break, a doubly
\* single-quoted word
SampleCodes ==
    {<<DQ, CH, BS, LN, CH, DQ>>, <<DQ, SQ, CH, SQ, DQ>>, <<SQ, DQ, CH, DQ, SQ>>,
     <<SP, DQ, DQ, CH, DQ, DQ, NL>>, <<SQ, SQ, CH, SQ, SQ>>}

\* a string handed to format_code; no process_input call takes place
FmtInit ==
    /\ fpc = "call"
    /\ code_string \in StringsUpTo(CodeChars, MaxCodeLen) \cup SampleCodes
    /\ once = <<>>
    /\ twice = <<>>
    /\ pc = "off"
    /\ max_retries = 0
    /\ attempt = 0
    /\ invocations = 0
    /\ output = <<>>
    /\ extracted = NoEnvelope
    /\ result = NoEnvelope
    /\ exc = <<>>
    /\ returned = Pending
    /\ trace = <<>>
    /\ ppc = "off"
    /\ text = <<>>
    /\ embedded = <<>>
    /\ tried = <<>>
    /\ parsed = NoEnvelope
    /\ history = <<>>
    /\ request = "off"
    /\ answer = Pending

\* test_case.test_code = format_code(test_case.test_code)
FormatOnce ==
    /\ fpc = "call"
    /\ once' = format_code(code_string)
    /\ fpc' = "once"
    /\ UNCHANGED <<code_string, twice>>
    /\ UNCHANGED <<orchVars, parseVars, sessVars>>

\* format_code(test.test_code) on the stored result
FormatTwice ==
    /\ fpc = "once"
    /\ twice' = format_code(once)
    /\ fpc' = "twice"
    /\ UNCHANGED <<code_string, once>>
    /\ UNCHANGED <<orchVars, parseVars, sessVars>>

FmtNext ==
    \/ FormatOnce
    \/ FormatTwice

SpecFormat == FmtInit /\ [][FmtNext]_vars

(***************************************************************************)
(* parse_llm_response on its own, strategy by strategy.                    *)
(***************************************************************************)
\* longest text taken from all texts over ParseTokens
MaxTextLen == 3

ParseTokens ==
    {FENCE, TAG, WS, LB, RB, PROSE, "valid_one", "rejected", "no_message",
     "syntax_error"}

\* prose before and after a fenced block, with fences and braces of its own
ProseBefore ==
    {<<>>, <<PROSE, WS>>, <<PROSE, LB, WS>>, <<PROSE, RB>>,
     <<PROSE, FENCE, WS>>, <<FENCE, PROSE, FENCE, WS>>}

ProseAfter ==
    {<<>>, <<WS, PROSE>>, <<RB, PROSE>>, <<WS, PROSE, FENCE>>, <<LB>>}

\* what follows the opening marker: nothing, white space, the tag
FenceOpenings == {<<>>, <<WS>>, <<TAG>>, <<TAG, WS>>}

\* objects written inside the fenced block
FencedObjects ==
    {Strict(b) : b \in {"valid_one", "valid_empty", "rejected", "no_message",
                        "syntax_error"}}
        \cup {FenceStringObject}

\* the text: prose, a fenced block holding obj, prose
FencedText(before, opening, obj, after) ==
    before \o <<FENCE>> \o opening \o obj \o <<WS, FENCE>> \o after

\* 400 characters whose second half differs from the first
MarkedText == [i \in 1..(2 * TruncLen) |-> IF i <= TruncLen THEN PROSE ELSE LB]

ParseInputs ==
    {[text |-> t, embedded |-> <<>>] : t \in StringsUpTo(ParseTokens, MaxTextLen)}
        \cup {[text |-> Garbage(n), embedded |-> <<>>] : n \in GarbageLens}
        \cup {[text |-> MarkedText, embedded |-> <<>>]}
        \cup {[text |-> FencedText(x[1], x[2], x[3], x[4]), embedded |-> x[3]] :
                 x \in ProseBefore \X FenceOpenings \X FencedObjects \X ProseAfter}

\* the order of the strategies
StrategyOrder == <<"strict", "fenced", "brace", "fallback">>

\* what strategy name makes of content
StrategyResult(name, content) ==
    CASE name = "strict" -> StrictDecode(content)
      [] name = "fenced" -> FencedDecode(content)
      [] name = "brace" -> BraceDecode(content)
      [] OTHER -> [ok |-> TRUE, obj |-> [is_valid |-> FALSE,
                                         message |-> FallbackMessage(content),
                                         test_cases |-> <<>>]]

\* a chain in which a fenced block that does not decode ends the search
AfterFencedAborts(content) ==
    IF FencedMatch(content).found THEN "fallback" ELSE "brace"

\* lines 180-184: where control goes when the second strategy gave nothing
AfterFencedFailure(content) == "brace"

\* a call of parse_llm_response on some text
ParseInit ==
    /\ ppc = "strict"
    /\ \E inp \in ParseInputs : text = inp.text /\ embedded = inp.embedded
    /\ tried = <<>>
    /\ parsed = NoEnvelope
    /\ pc = "off"
    /\ max_retries = 0
    /\ attempt = 0
    /\ invocations = 0
    /\ output = <<>>
    /\ extracted = NoEnvelope
    /\ result = NoEnvelope
    /\ exc = <<>>
    /\ returned = Pending
    /\ trace = <<>>
    /\ fpc = "off"
    /\ code_string = <<>>
    /\ once = <<>>
    /\ twice = <<>>
    /\ history = <<>>
    /\ request = "off"
    /\ answer = Pending

\* lines 166-169: parser.parse(content)
TryStrict ==
    /\ ppc = "strict"
    /\ tried' = Append(tried, "strict")
    /\ IF StrictDecode(text).ok
       THEN parsed' = model_validate(StrictDecode(text).obj) /\ ppc' = "returned"
       ELSE parsed' = parsed /\ ppc' = "fenced"
    /\ UNCHANGED <<text, embedded>>
    /\ UNCHANGED <<orchVars, fmtVars, sessVars>>

\* lines 172-181: the fenced block
TryFenced ==
    /\ ppc = "fenced"
    /\ tried' = Append(tried, "fenced")
    /\ IF FencedDecode(text).ok
       THEN parsed' = model_validate(FencedDecode(text).obj) /\ ppc' = "returned"
       ELSE parsed' = parsed /\ ppc' = AfterFencedFailure(text)
    /\ UNCHANGED <<text, embedded>>
    /\ UNCHANGED <<orchVars, fmtVars, sessVars>>

\* lines 184-193: the brace span
TryBrace ==
    /\ ppc = "brace"
    /\ tried' = Append(tried, "brace")
    /\ IF BraceDecode(text).ok
       THEN parsed' = model_validate(BraceDecode(text).obj) /\ ppc' = "returned"
       ELSE parsed' = parsed /\ ppc' = "fallback"
    /\ UNCHANGED <<text, embedded>>
    /\ UNCHANGED <<orchVars, fmtVars, sessVars>>

\* lines 196-200: the terminal fallback
Fallback ==
    /\ ppc = "fallback"
    /\ tried' = Append(tried, "fallback")
    /\ parsed' = ValidationWithTestCases(FALSE, FallbackMessage(text), <<>>)
    /\ ppc' = "returned"
    /\ UNCHANGED <<text, embedded>>
    /\ UNCHANGED <<orchVars, fmtVars, sessVars>>

ParseNext ==
    \/ TryStrict
    \/ TryFenced
    \/ TryBrace
    \/ Fallback

SpecParse == ParseInit /\ [][ParseNext]_vars

(***************************************************************************)
(* One user session: the script is run again on every interaction, the     *)
(* session history survives the runs.                                      *)
(***************************************************************************)
\* def process_input(..., max_retries=2)
DefaultRetries == 2

\* what one attempt of a request may meet: an exception, or a model answer
SessionEvents ==
    {[kind |-> "raises", e |-> <<"t", "i", "m", "e", "o", "u", "t">>,
      content |-> <<>>]}
    \cup {[kind |-> "answers", e |-> <<>>, content |-> c] :
             c \in {Strict("valid_two"), Fenced("valid_one"),
                    Embedded("valid_blank"), Strict("valid_empty"),
                    Strict("rejected_cases"), Strict("invalid_nomsg_cases"),
                    Garbage(1)}}

\* what the attempts of one request meet, one event per attempt the default
\* budget allows
Courses == [1..(DefaultRetries + 1) -> SessionEvents]

\* process_input from attempt att on, as a function of what its attempts meet
RECURSIVE RunAttempts(_, _, _)
RunAttempts(course, att, retries) ==
    IF ~(att < retries + 1) THEN ReturnsNone
    ELSE LET ev == course[att + 1]
             r == IF ev.kind = "raises"
                  THEN Handler(ev.e, att, retries)
                  ELSE Decision(FormatCases(parse_llm_response(ev.content)),
                                att, retries)
         IN  IF r = Pending
             THEN RunAttempts(course, NextAttempt(att), retries)
             ELSE r

\* process_input(functionality, test_type, programming_language)
process_input(course) == RunAttempts(course, 0, DefaultRetries)

\* the text area: empty or not
Functionalities == {<<>>, <<"f">>}

\* the language select box and, under "Outra", the custom text input
Languages ==
    {[selected |-> "Python", custom |-> <<>>],
     [selected |-> "Outra", custom |-> <<>>],
     [selected |-> "Outra", custom |-> <<"l">>]}

\* lines 290-293: the custom language replaces "Outra" when it was typed
ProgrammingLanguage(l) ==
    IF l.selected = "Outra" /\ l.custom # <<>> THEN "custom" ELSE l.selected

\* st.warning(...) of lines 305 and 307
Warning(w) == [kind |-> "warning", text |-> w]

\* a handler that keeps only the cases of the latest result
StoreResultReplaces(hist, r) ==
    IF HasCases(r.env) THEN r.env.test_cases ELSE hist

\* lines 313-316: every test case of a valid, non-empty result is appended
StoreResult(hist, r) ==
    IF HasCases(r.env) THEN hist \o r.env.test_cases ELSE hist

\* lines 203-204: a fresh session; no call of process_input is under way
SessInit ==
    /\ history = <<>>
    /\ request = "idle"
    /\ answer = Pending
    /\ pc = "off"
    /\ max_retries = 0
    /\ attempt = 0
    /\ invocations = 0
    /\ output = <<>>
    /\ extracted = NoEnvelope
    /\ result = NoEnvelope
    /\ exc = <<>>
    /\ returned = Pending
    /\ trace = <<>>
    /\ fpc = "off"
    /\ code_string = <<>>
    /\ once = <<>>
    /\ twice = <<>>
    /\ ppc = "off"
    /\ text = <<>>
    /\ embedded = <<>>
    /\ tried = <<>>
    /\ parsed = NoEnvelope

\* lines 303-321: the generate button was pressed
GeneratePressed ==
    /\ request # "off"
    /\ Len(history) < MaxHistory
    /\ request' = "generate"
    /\ \E functionality \in Functionalities, l \in Languages :
          IF functionality = <<>>
          THEN answer' = Warning("functionality") /\ history' = history
          ELSE IF ProgrammingLanguage(l) = "Outra" /\ l.custom = <<>>
          THEN answer' = Warning("language") /\ history' = history
          ELSE \E course \in Courses :
                  /\ answer' = process_input(course)
                  /\ history' = StoreResult(history, answer')
    /\ UNCHANGED <<orchVars, fmtVars, parseVars>>

\* lines 332-338: export of all cases; format_code runs on copies
ExportAllPressed ==
    /\ request # "off"
    /\ Len(history) > 0
    /\ request' = "export"
    /\ answer' = [kind |-> "export",
                  codes |-> [i \in 1..Len(history) |->
                                format_code(history[i].test_code)]]
    /\ history' = history
    /\ UNCHANGED <<orchVars, fmtVars, parseVars>>

\* any other interaction runs the script again: the history is kept (line
\* 203), the messages of the last request are gone
Rerun ==
    /\ request \in {"generate", "export"}
    /\ request' = "rerun"
    /\ answer' = Pending
    /\ history' = history
    /\ UNCHANGED <<orchVars, fmtVars, parseVars>>

SessNext ==
    \/ GeneratePressed
    \/ ExportAllPressed
    \/ Rerun

SpecSession == SessInit /\ [][SessNext]_vars

(***************************************************************************)
(* Properties of process_input (checked under Spec).                       *)
(***************************************************************************)
Finished == pc = "done"

LastAttempt == trace[Len(trace)]

IsEnvelope(r) ==
    /\ r.kind = "envelope"
    /\ r.env.is_valid \in BOOLEAN
    /\ DOMAIN r.env = {"is_valid", "message", "test_cases"}

\* C1: with a budget max_retries >= 0, whatever the attempts do (raise
\* before or at the model invocation, raise in the extraction pipeline,
\* unparseable text, empty, rejected or valid results), process_input ends
\* by returning a ValidationWithTestCases value: no exception escapes and
\* nothing but an envelope is ever returned.
C1_NeverRaises ==
    max_retries >= 0 =>
        IF Finished THEN IsEnvelope(returned) ELSE returned = Pending

\* C1 witness: every attempt of a budget of 2 raised and an envelope came back
C1_Witness ==
    /\ Finished
    /\ max_retries = 2
    /\ Len(trace) = 3
    /\ \A i \in 1..3 : trace[i].kind = "exception"
    /\ IsEnvelope(returned)

AllValidEmpty == \A i \in 1..Len(trace) : trace[i].kind = "valid_empty"

\* C2: while every answer of the model is a valid envelope without test
\* cases, process_input does not return before attempt max_retries + 1, has
\* then invoked the model exactly max_retries + 1 times, and returns an
\* envelope with is_valid = FALSE.
C2_EmptyResultExhausts ==
    (max_retries >= 0 /\ AllValidEmpty) =>
        /\ invocations <= max_retries + 1
        /\ Finished =>
              /\ Len(trace) = max_retries + 1
              /\ invocations = max_retries + 1
              /\ IsEnvelope(returned)
              /\ ~returned.env.is_valid

\* C2 witness: the default budget of 2, three empty answers, three invocations
C2_Witness ==
    /\ Finished
    /\ max_retries = 2
    /\ Len(trace) = 3
    /\ AllValidEmpty
    /\ invocations = 3
    /\ ~returned.env.is_valid

\* C3: an exception caught on an attempt that is not the last one is
\* swallowed (nothing is returned), the attempt counter advances by one and
\* the loop goes on; and when an attempt that raised is followed by an
\* attempt with a valid, non-empty result, that result is what
\* process_input returns.
C3_ExceptionRetried ==
    /\ [][(pc = "except" /\ attempt < max_retries) =>
             (pc' = "for" /\ attempt' = attempt + 1 /\ returned' = Pending)]_vars
    /\ [](( /\ Finished
            /\ Len(trace) >= 2
            /\ trace[Len(trace) - 1].kind = "exception"
            /\ LastAttempt.kind = "success" ) =>
              /\ returned = Return(FormatCases(extracted))
              /\ HasCases(returned.env))

\* C3 witness: the first attempt raised at the model invocation, the second
\* answer was valid and non-empty, and it was returned
C3_Witness ==
    /\ Finished
    /\ Len(trace) = 2
    /\ trace[1] = [kind |-> "exception", invoked |-> TRUE]
    /\ trace[2].kind = "success"
    /\ returned = Return(FormatCases(extracted))

\* C4: when the Extractor's result of an attempt has is_valid = FALSE and a
\* non-empty message, that attempt returns exactly this envelope (message
\* and test cases as extracted), whatever budget remains, and once
\* process_input has returned no model invocation follows.
C4_RejectionReturnedAsIs ==
    [][ /\ (pc = "decide" /\ IsRejection(extracted)) =>
              /\ pc' = "done"
              /\ returned' = Return(extracted)
              /\ invocations' = invocations
        /\ Finished => (invocations' = invocations /\ returned' = returned)
      ]_vars

\* C4 witness: a rejection on the first attempt of a budget of 2 was returned
C4_Witness ==
    /\ Finished
    /\ max_retries = 2
    /\ Len(trace) = 1
    /\ trace[1].kind = "rejected"
    /\ invocations = 1
    /\ returned = Return(extracted)
    /\ extracted.message = ModelMessage

\* C5: an envelope returned by process_input with is_valid = TRUE has at
\* least one test case.
C5_ValidHasCases ==
    (returned.kind = "envelope" /\ returned.env.is_valid) =>
        Len(returned.env.test_cases) > 0

\* C5 witness: a valid but empty answer was retried and a later valid answer
\* with test cases was returned
C5_Witness ==
    /\ Finished
    /\ Len(trace) = 2
    /\ trace[1].kind = "valid_empty"
    /\ returned.kind = "envelope"
    /\ returned.env.is_valid
    /\ Len(returned.env.test_cases) = 2

\* C6: every envelope the Extractor produces and every envelope
\* process_input returns with is_valid = FALSE has no test cases.
C6_InvalidHasNoCases ==
    /\ (pc \in {"format", "decide"} /\ ~extracted.is_valid) =>
           extracted.test_cases = <<>>
    /\ (returned.kind = "envelope" /\ ~returned.env.is_valid) =>
           returned.env.test_cases = <<>>

\* the last attempt got a text on which every extraction strategy fails
GarbageReturned ==
    /\ Finished
    /\ Len(trace) > 0
    /\ LastAttempt.kind = "rejected"
    /\ AllStrategiesFail(output)

\* C7 as stated: for text on which every strategy fails process_input
\* returns is_valid = FALSE with a non-empty message of at most 200
\* characters plus the ellipsis.
C7_MessageWithin200 ==
    GarbageReturned =>
        /\ IsEnvelope(returned)
        /\ ~returned.env.is_valid
        /\ Len(returned.env.message) > 0
        /\ Len(returned.env.message) <= TruncLen + Len(Ellipsis)

\* C7 amended: for text on which every strategy fails process_input
\* returns, without raising, is_valid = FALSE with a non-empty message no
\* longer than the fixed introductory text, plus at most 200 characters of
\* the model's text, plus the fixed ellipsis.
C7_MessageBounded ==
    GarbageReturned =>
        /\ IsEnvelope(returned)
        /\ ~returned.env.is_valid
        /\ Len(returned.env.message) > 0
        /\ Len(returned.env.message) <= ParsePrefixLen + TruncLen + Len(Ellipsis)

\* C7 witness: 400 characters of prose came back as a message of the
\* greatest length
C7_Witness ==
    /\ GarbageReturned
    /\ Len(output) = 2 * TruncLen
    /\ Len(returned.env.message) = ParsePrefixLen + TruncLen + Len(Ellipsis)

(***************************************************************************)
(* Properties of format_code (checked under SpecFormat).                   *)
(***************************************************************************)
\* C8: format_code(format_code(s)) = format_code(s) for every string s.
C8_Idempotent == fpc = "twice" => twice = once

\* C9: the result of format_code does not both begin and end with a double
\* quote, nor both begin and end with a single quote.
C9_NoSurroundingQuotes ==
    fpc \in {"once", "twice"} => ~Surrounded(once, DQ) /\ ~Surrounded(once, SQ)

\* C10: the result of format_code holds no escaped newline (a backslash
\* followed by the letter n), on the first and on a repeated application.
C10_NoEscapedNewline ==
    /\ fpc \in {"once", "twice"} => ~Contains(once, EscapedNewline)
    /\ fpc = "twice" => ~Contains(twice, EscapedNewline)

\* C10 witness: a doubled backslash before n, and a second escaped newline,
\* were rewritten
C10_Witness ==
    /\ fpc = "once"
    /\ code_string = <<BS, BS, LN, BS>> \/ code_string = <<BS, LN, BS, LN>>
    /\ Contains(once, RealNewline)

(***************************************************************************)
(* Properties of parse_llm_response (checked under SpecParse).             *)
(***************************************************************************)
ParseReturned == ppc = "returned"

LastTried == tried[Len(tried)]

\* C11: the strategies run in the order strict decode, fenced block, brace
\* span, fallback; one is attempted only after every earlier one failed; a
\* strategy that fails (no match, or a match that does not decode or
\* validate) hands over to the next one; and what is returned is the
\* envelope of the first strategy that succeeds.  So a fenced block that is
\* found but does not decode leaves the brace span of the whole text to
\* decide.
C11_FirstSuccessWins ==
    /\ tried = SubSeq(StrategyOrder, 1, Len(tried))
    /\ \A i \in 1..(Len(tried) - 1) : ~StrategyResult(tried[i], text).ok
    /\ ~ParseReturned =>
          /\ ppc = StrategyOrder[Len(tried) + 1]
          /\ \A i \in 1..Len(tried) : ~StrategyResult(tried[i], text).ok
    /\ ParseReturned =>
          /\ StrategyResult(LastTried, text).ok
          /\ parsed = model_validate(StrategyResult(LastTried, text).obj)
    /\ ( /\ ParseReturned
         /\ ~StrictDecode(text).ok
         /\ FencedMatch(text).found
         /\ ~FencedDecode(text).ok
         /\ BraceDecode(text).ok ) =>
          parsed = model_validate(BraceDecode(text).obj)

\* C11 witness: a fenced block was found and did not decode, and the brace
\* span of the whole text gave the envelope
C11_Witness ==
    /\ ParseReturned
    /\ tried = <<"strict", "fenced", "brace">>
    /\ FencedMatch(text).found
    /\ parsed = model_validate(BodyDict("valid_one"))

\* C12: on a text on which the three strategies fail, parse_llm_response
\* returns is_valid = FALSE, no test cases, and a message made of the fixed
\* introduction, the first min(200, length) characters of the text and the
\* ellipsis: nothing of the text beyond position 200.
C12_FallbackEmbedsPrefix ==
    (ParseReturned /\ AllStrategiesFail(text)) =>
        LET k == Min(TruncLen, Len(text))
            m == parsed.message
        IN  /\ ~parsed.is_valid
            /\ parsed.test_cases = <<>>
            /\ Len(m) = ParsePrefixLen + k + Len(Ellipsis)
            /\ \A i \in 1..ParsePrefixLen : m[i] = "P"
            /\ \A i \in 1..k : m[ParsePrefixLen + i] = text[i]
            /\ SubSeq(m, ParsePrefixLen + k + 1, Len(m)) = Ellipsis

\* C12 witness: of a text of 400 characters whose second half differs from
\* the first, only characters of the first half are in the message
C12_Witness ==
    /\ ParseReturned
    /\ text = MarkedText
    /\ tried = StrategyOrder
    /\ Len(parsed.message) = ParsePrefixLen + TruncLen + Len(Ellipsis)
    /\ \A i \in 1..Len(parsed.message) : parsed.message[i] # LB

\* the second strategy has run on a text that holds a schema-valid object
\* in a fenced block
FencedBlockTried ==
    /\ embedded # <<>>
    /\ DecodeAndValidate(embedded).ok
    /\ \E i \in 1..Len(tried) : tried[i] = "fenced"

\* C13: whenever a schema-valid object is written in a fenced block, with
\* any prose around it, the fenced-block strategy succeeds and yields exactly
\* that object.
C13_FencedRecoversObject ==
    FencedBlockTried =>
        /\ FencedDecode(text).ok
        /\ FencedDecode(text).obj = JsonLoads(embedded).obj

(***************************************************************************)
(* Further properties of process_input (checked under Spec).               *)
(***************************************************************************)
\* the greatest number of attempts the budget allows
Budget == IF max_retries >= 0 THEN max_retries + 1 ELSE 0

\* how far the statement at pc is from the end of its attempt
StepsLeft ==
    CASE pc = "for" -> 5
      [] pc = "try" -> 4
      [] pc = "parse" -> 3
      [] pc = "format" -> 2
      [] pc = "decide" -> 1
      [] OTHER -> 0

\* the positions before the return; each has an action guarded by it alone
RunningPositions == {"for", "try", "parse", "format", "decide", "except"}

\* a number that every step of the call makes smaller
Measure == IF Finished THEN 0 ELSE 6 * (Budget - attempt) + StepsLeft + 1

\* C14: a call of process_input ends: until it has returned it is at a
\* statement that can be executed, and every step brings it nearer to the
\* end.  The attempt counter starts at 0 and goes up by exactly one with
\* each attempt that does not end the call; no more than max_retries + 1 attempts are made
\* and the model is invoked at most once per attempt; once the call has
\* ended the model is not invoked again.
C14_BoundedAttempts ==
    /\ attempt = 0 /\ invocations = 0
    /\ []( /\ Len(trace) <= Budget
           /\ invocations <= Budget
           /\ invocations <= Len(trace) + 1
           /\ ~Finished => attempt = Len(trace)
           /\ Measure >= 0
           /\ Finished \/ pc \in RunningPositions )
    /\ [][ /\ attempt' \in {attempt, attempt + 1}
           /\ (Len(trace') # Len(trace)) =>
                 /\ Len(trace') = Len(trace) + 1
                 /\ Finished' \/ attempt' = attempt + 1
           /\ Measure' < Measure
           /\ Finished => (invocations' = invocations /\ Finished')
         ]_vars

\* C14 witness: the model failed on every call of the default budget and
\* the call ended after three attempts
C14_Witness ==
    /\ Finished
    /\ max_retries = 2
    /\ Len(trace) = 3
    /\ invocations = 3
    /\ \A i \in 1..3 : trace[i] = [kind |-> "exception", invoked |-> TRUE]

\* the fields of a test case other than test_code
OtherFields == TestCaseFields \ {"test_code"}

\* C15: when the Extractor result of an attempt is valid with a non-empty
\* test_cases list, process_input returns on that attempt, without another
\* model invocation, an envelope with the same is_valid and message and the
\* same number of test cases in the same order, each with its other fields
\* unchanged and its test_code equal to format_code of the extracted
\* test_code.  On every other outcome nothing is normalized: a rejection is
\* returned exactly as extracted, and the envelopes of a spent budget carry
\* no test case.
C15_SuccessFormatsEveryCase ==
    /\ []( (Finished /\ returned.kind = "envelope") =>
              /\ LastAttempt.kind = "success" <=> HasCases(extracted)
              /\ LastAttempt.kind = "success" =>
                    /\ returned.env.is_valid = extracted.is_valid
                    /\ returned.env.message = extracted.message
                    /\ Len(returned.env.test_cases) = Len(extracted.test_cases)
                    /\ \A i \in 1..Len(extracted.test_cases) :
                          /\ returned.env.test_cases[i].test_code =
                                format_code(extracted.test_cases[i].test_code)
                          /\ \A f \in OtherFields :
                                returned.env.test_cases[i][f] =
                                    extracted.test_cases[i][f]
              /\ LastAttempt.kind = "rejected" => returned.env = extracted
              /\ LastAttempt.kind \notin {"success", "rejected"} =>
                    returned.env.test_cases = <<>> )
    /\ [][ (pc = "decide" /\ HasCases(extracted)) =>
              /\ pc' = "done"
              /\ invocations' = invocations
              /\ returned'.kind = "envelope"
          ]_vars

\* C15 witness: on a second attempt the model returned two test cases, the
\* first quoted with an escaped newline, and the call returned both, the
\* first with its test_code rewritten and the second as it was
C15_Witness ==
    /\ Finished
    /\ Len(trace) = 2
    /\ LastAttempt.kind = "success"
    /\ extracted.test_cases = TwoCases
    /\ returned.env.test_cases[1].test_code = <<CH, NL, CH>>
    /\ returned.env.test_cases[1].test_code # extracted.test_cases[1].test_code
    /\ returned.env.test_cases[2] = extracted.test_cases[2]

\* the budget is spent and the last attempt was neither a success nor a
\* rejection
Exhausted ==
    /\ Finished
    /\ returned.kind = "envelope"
    /\ LastAttempt.kind \in {"exception", "valid_empty", "invalid_nomsg"}

\* C16: when the budget is spent without a success or a rejection, every
\* attempt of the budget has been made and the returned envelope has
\* is_valid = FALSE and no test case.  Its message depends on the last
\* attempt only: after an exception it is the error text with the number
\* of attempts max_retries + 1 and the description of that exception; after
\* an empty result it is the fixed generic message, whatever earlier
\* attempts raised.
C16_ExhaustedMessage ==
    Exhausted =>
        /\ Len(trace) = max_retries + 1
        /\ ~returned.env.is_valid
        /\ returned.env.test_cases = <<>>
        /\ LastAttempt.kind = "exception" =>
              /\ returned.env.message =
                    Lit("E", 31) \o <<ToString(max_retries + 1)>>
                                \o Lit("T", 13) \o exc
              /\ returned.env.message # GenericMessage
        /\ LastAttempt.kind # "exception" =>
              returned.env.message = GenericMessage

\* C16 witness: two attempts raised, the third gave an empty result, and the
\* call returned the generic message
C16_Witness ==
    /\ Exhausted
    /\ max_retries = 2
    /\ trace[1].kind = "exception"
    /\ trace[2].kind = "exception"
    /\ trace[3].kind = "valid_empty"
    /\ returned.env.message = GenericMessage

\* the envelope parse_llm_response builds for the current output when every
\* strategy fails on it
TerminalFallback ==
    ValidationWithTestCases(FALSE, FallbackMessage(output), <<>>)

\* C17: an answer that no strategy can decode ends the call.  On any
\* attempt, with budget left or not, once parse_llm_response has returned
\* for such an answer its result is the last-resort envelope, and the
\* decision of that same attempt returns exactly that envelope: the
\* attempt counter does not move and the model is not invoked again.
C17_MalformedIsTerminal ==
    /\ []( (pc \in {"format", "decide"} /\ AllStrategiesFail(output)) =>
              /\ extracted = TerminalFallback
              /\ result = TerminalFallback )
    /\ [][ (pc = "decide" /\ AllStrategiesFail(output)) =>
              /\ pc' = "done"
              /\ returned' = Return(TerminalFallback)
              /\ attempt' = attempt
              /\ invocations' = invocations
          ]_vars
    /\ []( (Finished /\ returned.kind = "envelope"
                     /\ LastAttempt.kind # "exception"
                     /\ AllStrategiesFail(output)) =>
              /\ returned = Return(TerminalFallback)
              /\ invocations = Len(SelectSeq(trace, WasInvoked)) )

\* C17 witness: the first answer of a call with the default budget was
\* undecodable text, and the call ended there with the last-resort envelope
\* after one model invocation
C17_Witness ==
    /\ Finished
    /\ max_retries = 2
    /\ Len(trace) = 1
    /\ invocations = 1
    /\ output = Garbage(1)
    /\ returned = Return(TerminalFallback)

(***************************************************************************)
(* Further properties of format_code (checked under SpecFormat).           *)
(***************************************************************************)
\* the early return of format_code is taken for the string handed in
EarlyReturn ==
    /\ \E i \in 1..Len(code_string) : code_string[i] = NL
    /\ ~\E i \in 1..(Len(code_string) - 1) :
            code_string[i] = BS /\ code_string[i + 1] = LN

\* the string after escaped newlines are replaced and whitespace is trimmed
Trimmed == Strip(ReplaceEscapedNewlines(code_string))

\* s begins and ends with the character q (a lone q does both)
BeginsAndEnds(s, q) == Len(s) >= 1 /\ s[1] = q /\ s[Len(s)] = q

\* s without its first and last character: s[1:-1]
Inner(s) == SubSeq(s, 2, Len(s) - 1)

\* C18: on the path that is not the early return, with t the string after
\* escaped newlines are replaced and surrounding whitespace is trimmed: if t
\* begins and ends with a double quote these two are removed, otherwise t is
\* kept; then, on what is left, a beginning and ending single quote are
\* removed if present.  Nothing else is removed: a second pair of the same
\* quote stays, a double-quoted string around a single-quoted one loses
\* both pairs, a single-quoted string around a double-quoted one loses only
\* the single quotes.  The string double quote, a, escaped newline, a,
\* double quote gives a, line break, a.
C18_QuoteStripping ==
    (fpc \in {"once", "twice"} /\ ~EarlyReturn) =>
        LET t == Trimmed
            a == IF BeginsAndEnds(t, DQ) THEN Inner(t) ELSE t
            b == IF BeginsAndEnds(a, SQ) THEN Inner(a) ELSE a
        IN  /\ once = b
            /\ Len(t) - Len(once) <= 4
            /\ (~BeginsAndEnds(t, DQ) /\ ~BeginsAndEnds(t, SQ)) => once = t
            /\ (BeginsAndEnds(t, SQ) /\ Len(t) >= 2) => once = Inner(t)
            /\ (BeginsAndEnds(t, DQ) /\ Len(t) >= 4 /\ BeginsAndEnds(Inner(t), DQ)) =>
                  once = Inner(t)
            /\ (BeginsAndEnds(t, DQ) /\ Len(t) >= 4 /\ BeginsAndEnds(Inner(t), SQ)) =>
                  once = Inner(Inner(t))
            /\ code_string = <<DQ, CH, BS, LN, CH, DQ>> => once = <<CH, NL, CH>>
            /\ code_string = <<DQ, SQ, CH, SQ, DQ>> => once = <<CH>>
            /\ code_string = <<SQ, DQ, CH, DQ, SQ>> => once = <<DQ, CH, DQ>>

\* C18 witness: the quoted two-line snippet lost its quotes and got its
\* line break
C18_Witness ==
    /\ fpc = "once"
    /\ code_string = <<DQ, CH, BS, LN, CH, DQ>>
    /\ ~EarlyReturn
    /\ once = <<CH, NL, CH>>

\* C19: a string with at least one real line break and no escaped newline
\* comes back from format_code exactly as it went in, leading and trailing
\* whitespace and surrounding quotes included; every other string comes back
\* as the result of replacing the escaped newlines, trimming, and stripping
\* the double and then the single quotes.  The same holds when format_code
\* is applied to its own result.
C19_EarlyReturnGuard ==
    /\ fpc \in {"once", "twice"} =>
          /\ EarlyReturn => once = code_string
          /\ ~EarlyReturn =>
                once = StripQuotePair(StripQuotePair(Trimmed, DQ), SQ)
    /\ fpc = "twice" =>
          /\ (Contains(once, RealNewline) /\ ~Contains(once, EscapedNewline)) =>
                twice = once
          /\ ~(Contains(once, RealNewline) /\ ~Contains(once, EscapedNewline)) =>
                twice = StripQuotePair(StripQuotePair(
                            Strip(ReplaceEscapedNewlines(once)), DQ), SQ)

\* C19 witness: a quoted string with whitespace around it and a real line
\* break inside came back untouched, although trimming and quote stripping
\* would have changed it
C19_Witness ==
    /\ fpc = "once"
    /\ code_string = <<SP, DQ, DQ, CH, DQ, DQ, NL>>
    /\ EarlyReturn
    /\ once = code_string
    /\ Trimmed # code_string

(***************************************************************************)
(* Properties of the session history (checked under SpecSession).          *)
(***************************************************************************)
\* the request just handled ended with a valid, non-empty envelope
Accepted(a) ==
    /\ a.kind = "envelope"
    /\ a.env.is_valid
    /\ Len(a.env.test_cases) > 0

\* C20: across the requests of a session the history only grows at its
\* end and only after a success.  A generate request whose returned
\* envelope is valid with a non-empty test_cases list appends exactly the
\* test cases of that envelope, in their order; a generate request with any
\* other outcome (a warning, a rejection, a spent budget), an export and a
\* rerun leave the history as it was.  The history starts empty and no
\* entry is ever removed, changed or moved.
C20_HistoryAppendOnly ==
    /\ history = <<>>
    /\ [][ /\ Len(history') >= Len(history)
           /\ SubSeq(history', 1, Len(history)) = history
           /\ IF request' = "generate" /\ Accepted(answer')
              THEN /\ Len(history') = Len(history) + Len(answer'.env.test_cases)
                   /\ \A i \in 1..Len(answer'.env.test_cases) :
                         history'[Len(history) + i] = answer'.env.test_cases[i]
              ELSE history' = history
         ]_vars

\* C20 witness: after a first success had put one case into the history, a
\* second request succeeded with two cases and they stand behind the first
C20_Witness ==
    /\ request = "generate"
    /\ Accepted(answer)
    /\ Len(answer.env.test_cases) = 2
    /\ Len(history) = 3
    /\ history[1].title = "t3"
    /\ history[2] = answer.env.test_cases[1]
    /\ history[3] = answer.env.test_cases[2]

(***************************************************************************)
(* Properties of process_input for unusual results and budgets (checked    *)
(* under Spec).                                                            *)
(***************************************************************************)
\* the result of the current attempt is invalid and carries no message
SilentInvalid == ~result.is_valid /\ result.message = <<>>

\* C21: an Extractor result with is_valid = FALSE and an empty message, with
\* or without test cases, is handled like an empty result.  The decision of
\* its attempt never returns it: the attempt is recorded, and with budget
\* left the call goes on with the next attempt, while on the last attempt the
\* call returns the generic envelope.  Hence every envelope process_input
\* returns with is_valid = FALSE has a non-empty message.
C21_SilentInvalidRetried ==
    /\ [][ (pc = "decide" /\ SilentInvalid) =>
              /\ returned' # Return(result)
              /\ Len(trace') = Len(trace) + 1
              /\ trace'[Len(trace')].kind = "invalid_nomsg"
              /\ invocations' = invocations
              /\ IF attempt < max_retries
                 THEN /\ pc' = "for"
                      /\ attempt' = attempt + 1
                      /\ returned' = Pending
                 ELSE /\ pc' = "done"
                      /\ returned' = Return(ValidationWithTestCases(
                                          FALSE, Lit("G", GenericLen), <<>>))
          ]_vars
    /\ []( (Finished /\ returned.kind = "envelope" /\ ~returned.env.is_valid) =>
              Len(returned.env.message) > 0 )

\* C21 witness: the first answer was invalid without a message and was
\* retried, the last answer of the budget was invalid without a message
\* although it carried test cases, and the call returned the generic envelope
C21_Witness ==
    /\ Finished
    /\ max_retries = 2
    /\ Len(trace) = 3
    /\ trace[1].kind = "invalid_nomsg"
    /\ trace[3].kind = "invalid_nomsg"
    /\ SilentInvalid
    /\ Len(result.test_cases) > 0
    /\ returned.env.message = GenericMessage
    /\ returned.env.test_cases = <<>>

\* C22: whatever integer max_retries is, negative values included, a call
\* of process_input that has ended has invoked the model at least once and
\* has returned a ValidationWithTestCases value, never None.
C22_AlwaysInvokesAndReturns ==
    Finished =>
        /\ invocations >= 1
        /\ returned # ReturnsNone
        /\ IsEnvelope(returned)

====
